---- MODULE Spec2Model ----
(***************************************************************************)
(* State-machine model of PolicyComplianceAnalysisTool                     *)
(* (policy_compliance_tool_windows.py): the two document folders, the two  *)
(* in-memory document collections, the two vector stores, and the four     *)
(* public operations load_documents, split_documents, create_vector_store  *)
(* and generate_compliance_report.  The extraction, embedding and          *)
(* generation backends are external: each call to one of them either       *)
(* succeeds or raises, chosen nondeterministically.                        *)
(***************************************************************************)
EXTENDS Integers, Sequences, FiniteSets, TLC

VARIABLES
    folder,      \* folder[c]: the category's directory on disk
    docs,        \* docs[c]: self.policy_documents / self.regulatory_documents
    store,       \* store[c]: self.policy_vector_store / self.regulatory_vector_store
    embeddings,  \* self.embeddings
    call,        \* the step that produced this state (an API call or a folder change)
    ret,         \* what that call returned or raised
    obs          \* what generate_compliance_report did while it ran

vars == <<folder, docs, store, embeddings, call, ret, obs>>

Cats == {"policy", "regulatory"}

\* A caller may pass any string as document_type.
DocTypes == Cats \cup {"other"}

Other(c) == IF c = "policy" THEN "regulatory" ELSE "policy"

\* Python's None, and a Python str as the sequence of its formatted segments.
None == [kind |-> "None"]

Str(s) == <<s>>

-----------------------------------------------------------------------------
(* The file system.                                                        *)

\* Directory entries a folder may hold.  pages is the number of characters
\* of text on each page; readable says whether PyPDFLoader.load() succeeds.
Entries ==
    { [name |-> "bad",   ext |-> "pdf", isfile |-> TRUE,  readable |-> FALSE, pages |-> <<>>],
      [name |-> "A",     ext |-> "PDF", isfile |-> TRUE,  readable |-> TRUE,  pages |-> <<1800, 600>>],
      [name |-> "blank", ext |-> "pdf", isfile |-> TRUE,  readable |-> TRUE,  pages |-> <<0>>],
      [name |-> "notes", ext |-> "txt", isfile |-> TRUE,  readable |-> TRUE,  pages |-> <<>>],
      [name |-> "old",   ext |-> "pdf", isfile |-> FALSE, readable |-> FALSE, pages |-> <<>>] }

\* The order os.listdir reports the entries in.
ListingOrder == <<"bad", "A", "notes", "blank", "old">>

EntryNamed(n) == CHOOSE e \in Entries : e.name = n

\* A folder is missing or holds a set of entries, kept by name.
MissingFolder == [exists |-> FALSE, entries |-> {}]

\* The contents a folder is given: missing; nothing loadable (an unreadable
\* PDF, a text file, a directory named like a PDF); only a blank PDF; a good
\* PDF after a bad one, with a blank one after it.
FolderValues ==
    {MissingFolder} \cup
    { [exists |-> TRUE, entries |-> S] :
        S \in { {"bad", "notes", "old"}, {"blank"}, {"bad", "A", "notes", "blank"} } }

\* os.listdir(documents_folder)
ListDir(f) ==
    LET names == SelectSeq(ListingOrder, LAMBDA n : n \in f.entries)
    IN  [i \in 1..Len(names) |-> EntryNamed(names[i])]

\* filename.lower(), on the extension
Lower(ext) == IF ext = "PDF" THEN "pdf" ELSE ext

\* os.path.isfile(file_path) and filename.lower().endswith('.pdf')
IsPdfFile(e) == e.isfile /\ Lower(e.ext) = "pdf"

\* PyPDFLoader(file_path).load(): one Document per page
LoaderLoad(c, e) ==
    [p \in 1..Len(e.pages) |-> [source |-> <<c, e.name>>, page |-> p, len |-> e.pages[p]]]

-----------------------------------------------------------------------------
(* load_documents                                                          *)

\* A load_documents that forgets to reset the list.
KeepList(document_list) == document_list

\* document_list.clear()
ClearList(document_list) == <<>>

\* A count of Document records instead of files.
CountRecords(pdf_count, loaded) == pdf_count + Len(loaded)

\* pdf_count += 1
CountAfterFile(pdf_count, loaded) == pdf_count + 1

\* The for loop over os.listdir: a file that is not a PDF is passed over, a
\* PDF whose load() raises is reported and passed over, any other PDF has
\* its pages appended and is counted.
RECURSIVE LoadLoop(_, _, _, _)
LoadLoop(c, listing, document_list, pdf_count) ==
    IF listing = <<>>
    THEN [docs |-> document_list, count |-> pdf_count]
    ELSE LET e == Head(listing) IN
         IF IsPdfFile(e) /\ e.readable
         THEN LoadLoop(c, Tail(listing), document_list \o LoaderLoad(c, e),
                       CountAfterFile(pdf_count, LoaderLoad(c, e)))
         ELSE LoadLoop(c, Tail(listing), document_list, pdf_count)

\* load_documents(document_type) on the tool state S = [folder, docs, store]:
\* the state after the call and what the call returns.
LoadDocuments(S, c) ==
    IF c \notin Cats
    THEN [S |-> S, ret |-> [kind |-> "raise", val |-> "ValueError"]]
    ELSE LET cleared == ClearList(S.docs[c]) IN
         IF ~S.folder[c].exists
         THEN [S   |-> [S EXCEPT !.docs[c] = cleared,
                                 !.folder[c] = [exists |-> TRUE, entries |-> {}]],
               ret |-> [kind |-> "int", val |-> 0]]
         ELSE LET r == LoadLoop(c, ListDir(S.folder[c]), cleared, 0) IN
              [S   |-> [S EXCEPT !.docs[c] = r.docs],
               ret |-> [kind |-> "int", val |-> r.count]]

-----------------------------------------------------------------------------
(* split_documents                                                         *)

\* The defaults of split_documents: chunk_size and chunk_overlap.
ChunkSize == 1000

ChunkOverlap == 200

\* The number of windows RecursiveCharacterTextSplitter cuts a text of L
\* characters into: none for an empty text, one when it fits, otherwise one
\* more per (ChunkSize - ChunkOverlap) characters beyond the first window.
NumChunks(L) ==
    IF L = 0 THEN 0
    ELSE IF L <= ChunkSize THEN 1
    ELSE 1 + ((L - ChunkSize) + (ChunkSize - ChunkOverlap) - 1) \div (ChunkSize - ChunkOverlap)

ChunksOfDocument(d) ==
    [k \in 1..NumChunks(d.len) |-> [source |-> d.source, page |-> d.page, part |-> k]]

\* text_splitter.split_documents(documents)
RECURSIVE SplitAll(_)
SplitAll(documents) ==
    IF documents = <<>> THEN <<>>
    ELSE ChunksOfDocument(Head(documents)) \o SplitAll(Tail(documents))

\* split_documents(document_type)
SplitDocuments(S, c) ==
    IF c \notin Cats
    THEN [ret |-> [kind |-> "raise", val |-> "ValueError"], chunks |-> <<>>]
    ELSE IF S.docs[c] = <<>>
    THEN [ret |-> [kind |-> "list", val |-> <<>>], chunks |-> <<>>]
    ELSE [ret |-> [kind |-> "list", val |-> SplitAll(S.docs[c])],
          chunks |-> SplitAll(S.docs[c])]

-----------------------------------------------------------------------------
(* create_vector_store                                                     *)

Available == [kind |-> "OllamaEmbeddings"]

\* Chroma.from_documents(documents=chunks, embedding=self.embeddings)
Chroma(chunks) == [kind |-> "Chroma", chunks |-> chunks]

\* The chunks argument: omitted (None) or a list.
Omitted == [given |-> FALSE, list |-> <<>>]

Given(list) == [given |-> TRUE, list |-> list]

\* A create_vector_store that keeps every store in the policy attribute.
AlwaysPolicyAttr(c) == "policy"

\* vector_store_attr: the attribute a document type's store is kept in.
VectorStoreAttr(c) == c

\* A create_vector_store without the empty-chunks check.
NeverNoChunks(chunks) == FALSE

\* "if not chunks"
NoChunks(chunks) == Len(chunks) = 0

\* create_vector_store(document_type, chunks) with self.embeddings = emb;
\* buildOk says whether Chroma.from_documents succeeds (it raises when the
\* embedding backend cannot be reached).
CreateVectorStore(S, emb, c, arg, buildOk) ==
    IF emb = None
    THEN [S |-> S, ret |-> None]
    ELSE IF c \notin Cats
    THEN [S |-> S, ret |-> [kind |-> "raise", val |-> "ValueError"]]
    ELSE LET chunks == IF arg.given THEN arg.list ELSE SplitDocuments(S, c).chunks IN
         IF NoChunks(chunks)
         THEN [S |-> S, ret |-> None]
         ELSE IF buildOk
         THEN [S   |-> [S EXCEPT !.store[VectorStoreAttr(c)] = Chroma(chunks)],
               ret |-> [kind |-> "store", val |-> Chroma(chunks)]]
         ELSE [S |-> S, ret |-> None]

-----------------------------------------------------------------------------
(* generate_compliance_report                                              *)

MsgNoStores ==
    "Error: Cannot generate compliance report. Please ensure both policy and regulatory documents are loaded and vector stores are created."

MsgNoChain ==
    "Error: Could not initialize analysis chain. Please ensure Ollama is running."

MsgGenFailed == "Error generating compliance report: "

\* The texts the generation backend answers with, and the exceptions it raises.
NumReports == 2

Reports == { <<"report ", ToString(i)>> : i \in 1..NumReports }

\* A generate_compliance_report that rebuilds unconditionally.
AlwaysNotAvailable(vector_store) == TRUE

\* "not self.policy_vector_store" / "not self.regulatory_vector_store"
NotAvailable(vector_store) == vector_store = None

\* A message that singles out the missing side.
MessageNamingSide(policy_vector_store, regulatory_vector_store) ==
    <<"Error: Cannot generate compliance report. Vector store not available: ",
      IF policy_vector_store = None THEN "policy" ELSE "regulatory">>

\* The string returned when a vector store is still missing after the
\* rebuild attempt.
StoresUnavailableMessage(policy_vector_store, regulatory_vector_store) ==
    Str(MsgNoStores)

\* A generate_compliance_report that returns something other than the
\* backend's answer.
ReturnPlaceholder(compliance_report) == Str("compliance_report")

\* "return compliance_report"
ReturnReport(compliance_report) == compliance_report

\* The rebuild of one category: load_documents then create_vector_store,
\* run only when the category's store is not available.
Rebuild(S, emb, c, buildOk) ==
    IF NotAvailable(S.store[c])
    THEN [S     |-> CreateVectorStore(LoadDocuments(S, c).S, emb, c, Omitted, buildOk).S,
          trace |-> << <<"load_documents", c>>, <<"create_vector_store", c>> >>]
    ELSE [S |-> S, trace |-> <<>>]

\* What the environment does during one generate_compliance_report call:
\* whether each index build succeeds, the first step after the index check
\* at which a backend fails (none, a retrieval, the LLM construction, the
\* chain invocation), the text the backend answers with and the exception it
\* raises otherwise.
BackendError == "connection refused"

GenerateEnvs ==
    [buildOk : [Cats -> BOOLEAN], fails : {"retrieve", "chain", "invoke"},
     out : {Str("-")}, err : {BackendError}]
    \cup
    [buildOk : [Cats -> BOOLEAN], fails : {"none"}, out : Reports, err : {BackendError}]

NoObs == [trace |-> <<>>, llmCalls |-> 0, failedAt |-> "-", backendText |-> <<>>]

\* generate_compliance_report(): the state after the call, what it returns
\* or raises, and what it did.
GenerateComplianceReport(S, emb, env) ==
    LET p  == Rebuild(S, emb, "policy", env.buildOk["policy"])
        r  == Rebuild(p.S, emb, "regulatory", env.buildOk["regulatory"])
        T  == r.S
        tr == p.trace \o r.trace
    IN
    IF NotAvailable(T.store["policy"]) \/ NotAvailable(T.store["regulatory"])
    THEN [S   |-> T,
          ret |-> [kind |-> "str",
                   val  |-> StoresUnavailableMessage(T.store["policy"], T.store["regulatory"])],
          obs |-> [NoObs EXCEPT !.trace = tr]]
    ELSE IF env.fails = "retrieve"
    THEN \* get_relevant_documents raises outside any try block
         [S   |-> T,
          ret |-> [kind |-> "raise", val |-> env.err],
          obs |-> [NoObs EXCEPT !.trace = tr, !.failedAt = "retrieve"]]
    ELSE IF env.fails = "chain"
    THEN [S   |-> T,
          ret |-> [kind |-> "str", val |-> Str(MsgNoChain)],
          obs |-> [NoObs EXCEPT !.trace = tr, !.failedAt = "chain"]]
    ELSE IF env.fails = "none"
    THEN [S   |-> T,
          ret |-> [kind |-> "str", val |-> ReturnReport(env.out)],
          obs |-> [NoObs EXCEPT !.trace = tr, !.llmCalls = 1, !.failedAt = "none",
                                !.backendText = env.out]]
    ELSE [S   |-> T,
          ret |-> [kind |-> "str", val |-> <<MsgGenFailed, env.err>>],
          obs |-> [NoObs EXCEPT !.trace = tr, !.llmCalls = 1, !.failedAt = "invoke"]]

-----------------------------------------------------------------------------
(* The state machine.                                                      *)

ToolState == [folder |-> folder, docs |-> docs, store |-> store]

NoRet == [kind |-> "nothing"]

Called(op, c, arg) == [op |-> op, cat |-> c, arg |-> arg]

\* __init__: empty collections, no stores; OllamaEmbeddings(...) either
\* constructs or raises, which leaves self.embeddings = None.
Init ==
    /\ folder \in [Cats -> FolderValues]
    /\ docs = [c \in Cats |-> <<>>]
    /\ store = [c \in Cats |-> None]
    /\ embeddings \in {None, Available}
    /\ call = Called("__init__", "-", "-")
    /\ ret = NoRet
    /\ obs = NoObs

Becomes(S) ==
    /\ folder' = S.folder
    /\ docs' = S.docs
    /\ store' = S.store
    /\ UNCHANGED embeddings

Load(c) ==
    LET r == LoadDocuments(ToolState, c) IN
    /\ Becomes(r.S)
    /\ call' = Called("load_documents", c,
                      IF call.op = "load_documents" /\ call.cat = c THEN "again" ELSE "first")
    /\ ret' = r.ret
    /\ obs' = NoObs

Split(c) ==
    /\ UNCHANGED <<folder, docs, store, embeddings>>
    /\ call' = Called("split_documents", c, "-")
    /\ ret' = SplitDocuments(ToolState, c).ret
    /\ obs' = NoObs

\* The chunks a caller passes: none, an empty list, or the list
\* split_documents(document_type) returns.
ChunkArgs(c) ==
    [omitted |-> Omitted, empty |-> Given(<<>>),
     split |-> Given(SplitDocuments(ToolState, c).chunks)]

Create(c, a, buildOk) ==
    LET r == CreateVectorStore(ToolState, embeddings, c, ChunkArgs(c)[a], buildOk) IN
    /\ Becomes(r.S)
    /\ call' = Called("create_vector_store", c, a)
    /\ ret' = r.ret
    /\ obs' = NoObs

Generate(env) ==
    LET r == GenerateComplianceReport(ToolState, embeddings, env) IN
    /\ Becomes(r.S)
    /\ call' = Called("generate_compliance_report", "-", "-")
    /\ ret' = r.ret
    /\ obs' = r.obs

\* Between calls the user adds, removes or replaces files, or the folder.
FolderChange(c, f) ==
    /\ f # folder[c]
    /\ folder' = [folder EXCEPT ![c] = f]
    /\ UNCHANGED <<docs, store, embeddings>>
    /\ call' = Called("folder change", c, "-")
    /\ ret' = NoRet
    /\ obs' = NoObs

Next ==
    \/ \E c \in DocTypes : Load(c)
    \/ \E c \in DocTypes : Split(c)
    \/ \E c \in DocTypes, a \in {"omitted", "empty", "split"}, ok \in BOOLEAN : Create(c, a, ok)
    \/ \E env \in GenerateEnvs : Generate(env)
    \/ \E c \in Cats, f \in FolderValues : FolderChange(c, f)

Spec == Init /\ [][Next]_vars

-----------------------------------------------------------------------------
(* Vocabulary of the properties.                                           *)

Range(seq) == { seq[i] : i \in DOMAIN seq }

IsGenerate(k) == k.op = "generate_compliance_report"

\* The entries of a folder that load_documents turns into Document records.
Loadable(f) ==
    { e \in Entries : e.name \in f.entries /\ e.isfile /\ e.ext \in {"pdf", "PDF"} /\ e.readable }

\* The page records of the loadable entries of category c's folder.
PageRecords(c, f) ==
    UNION { { [source |-> <<c, e.name>>, page |-> p, len |-> e.pages[p]] :
                p \in 1..Len(e.pages) } : e \in Loadable(f) }

\* The categories a returned message mentions by name.
CategoriesNamed(msg) ==
    { c \in Cats : \E i \in DOMAIN msg : msg[i] = c \/ msg[i] = MsgNoStores }

IsErrorString(msg) == msg[1] \in {MsgNoStores, MsgNoChain, MsgGenFailed}

Degraded(r) == r = [kind |-> "str", val |-> Str(MsgNoStores)]

-----------------------------------------------------------------------------
(* Properties.                                                             *)

\* C1: a category's vector store is non-null only if that category's
\* document collection is non-empty.
C1_IndexOnlyWithDocuments ==
    \A c \in Cats : store[c] # None => docs[c] # <<>>

\* A category has zero documents: its collection is empty and its folder
\* holds nothing load_documents could load.
ZeroDocuments(c) == docs[c] = <<>> /\ Loadable(folder[c]) = {}

\* C2: a generate_compliance_report call made while one category has zero
\* documents and the other has some returns the DEGRADED string, and the
\* generation backend is not invoked (stated for the calls during which no
\* backend fails after the index check).
C2_DegradedWhenOneSideEmpty ==
    [][ (/\ IsGenerate(call')
         /\ obs'.failedAt \in {"-", "none"}
         /\ \E c \in Cats : ZeroDocuments(c) /\ docs[Other(c)] # <<>>)
        => (Degraded(ret') /\ obs'.llmCalls = 0) ]_vars

\* Exactly category c has no index when the call ends.
OnlyMissing(c) == store[c] = None /\ store[Other(c)] # None

\* C3 (as stated): when generate_compliance_report ends in DEGRADED because
\* exactly one category has no index, the returned message names that
\* category, and only that one, as the deficient side.
C3_MessageNamesDeficientSide ==
    \A c \in Cats :
        (IsGenerate(call) /\ OnlyMissing(c))
        => (ret.kind = "str" /\ CategoriesNamed(ret.val) = {c})

\* C3 (amended): the DEGRADED message is one fixed string whichever side is
\* deficient; it mentions both categories and singles out neither.
C3_DegradedMessageIsGeneric ==
    \A c \in Cats :
        (IsGenerate(call) /\ OnlyMissing(c))
        => (/\ ret.kind = "str"
            /\ ret.val = Str(MsgNoStores)
            /\ CategoriesNamed(ret.val) = Cats)

\* The policy side is indexed, the regulatory folder holds nothing loadable,
\* and generate_compliance_report has answered.
C3_Witness ==
    /\ IsGenerate(call)
    /\ OnlyMissing("regulatory")
    /\ Loadable(folder["regulatory"]) = {}
    /\ ret.kind = "str"

\* C4: generate_compliance_report never propagates an exception when a
\* backend fails after the index check (context retrieval, chain setup,
\* generation call); it returns an error-shaped string.
C4_BackendFailureBecomesErrorString ==
    (IsGenerate(call) /\ obs.failedAt \in {"retrieve", "chain", "invoke"})
    => (ret.kind = "str" /\ IsErrorString(ret.val))

\* No record occurs twice in a collection.
NoDuplicates(seq) == \A i, j \in DOMAIN seq : seq[i] = seq[j] => i = j

\* C5: load_documents replaces the collection: a load_documents(category)
\* that directly follows another one on an unchanged folder returns the same
\* value and leaves a collection of the same size, and after any load every
\* record comes from an entry now in the folder and occurs once.
C5_LoadReplaces ==
    [][ \A c \in Cats :
          (call'.op = "load_documents" /\ call'.cat = c)
          => (/\ NoDuplicates(docs'[c])
              /\ \A d \in Range(docs'[c]) : d.source[2] \in folder'[c].entries
              /\ (call'.arg = "again" /\ folder' = folder)
                 => (Len(docs'[c]) = Len(docs[c]) /\ ret' = ret)) ]_vars

\* load_documents ran twice in a row on a folder with loadable files.
C5_Witness ==
    /\ call.op = "load_documents"
    /\ call.arg = "again"
    /\ call.cat \in Cats
    /\ ret = [kind |-> "int", val |-> 2]
    /\ Len(docs[call.cat]) = 3

\* C6: load_documents returns the number of supported-format files whose
\* extraction succeeded, and the collection then holds exactly the page
\* records of those files; a failing file is skipped and the files after it
\* are still processed.
C6_LoadCountsFiles ==
    \A c \in Cats :
        (call.op = "load_documents" /\ call.cat = c)
        => (/\ ret = [kind |-> "int", val |-> Cardinality(Loadable(folder[c]))]
            /\ Range(docs[c]) = PageRecords(c, folder[c])
            /\ Len(docs[c]) = Cardinality(PageRecords(c, folder[c])))

\* A load over a folder whose listing has an unreadable PDF before two
\* readable ones: two files counted, three page records.
C6_Witness ==
    /\ call.op = "load_documents"
    /\ call.cat = "policy"
    /\ "bad" \in folder["policy"].entries
    /\ ret = [kind |-> "int", val |-> 2]
    /\ Len(docs["policy"]) = 3

\* The chunk sequence a create_vector_store call works on, from the state it
\* is called in: the list given, or split_documents' result when omitted.
ChunksUsed(c, a) == IF a = "empty" THEN <<>> ELSE SplitAll(docs[c])

\* C7: for a valid category create_vector_store never raises; it returns
\* None whenever the embeddings are unavailable or the chunk sequence is
\* empty (and when index construction fails); whenever it returns None the
\* stored indexes are what they were, and an index it stores is never empty.
C7_CreateFailsToNone ==
    [][ \A c \in Cats :
          (call'.op = "create_vector_store" /\ call'.cat = c)
          => (/\ ret'.kind \in {"None", "store"}
              /\ (embeddings = None \/ ChunksUsed(c, call'.arg) = <<>>) => ret' = None
              /\ ret' = None => store' = store
              /\ ret'.kind = "store"
                 => (ret'.val.chunks # <<>> /\ store'[c] = ret'.val)
              /\ store'[c] # None => store'[c].chunks # <<>>) ]_vars

\* create_vector_store returned None for a category that already had an
\* index, with the embeddings available, and the index is still there.
C7_Witness ==
    /\ call.op = "create_vector_store"
    /\ call.cat \in Cats
    /\ embeddings # None
    /\ ret = None
    /\ store[call.cat] # None

BothStores == store["policy"] # None /\ store["regulatory"] # None

\* C9 (as stated, for the calls that return): every
\* generate_compliance_report call ends either DEGRADED, returning the
\* explanatory string with an index missing, or DONE with both indexes, the
\* generation backend called exactly once and its text returned unchanged.
C9_TwoOutcomes ==
    (IsGenerate(call) /\ ret.kind = "str")
    => \/ ~BothStores /\ Degraded(ret)
       \/ /\ BothStores
          /\ obs.llmCalls = 1
          /\ obs.failedAt = "none"
          /\ ret.val = obs.backendText

\* C9 (amended): a call ends DEGRADED when an index is missing after the
\* rebuild attempt; with both indexes it raises when a retrieval fails,
\* returns the chain-initialisation error string (backend never called) when
\* the LLM cannot be constructed, returns the generation error string when
\* the one backend call fails, and otherwise returns exactly the text of the
\* one backend call.
C9_Outcomes ==
    IsGenerate(call)
    => \/ ~BothStores /\ Degraded(ret) /\ obs.llmCalls = 0
       \/ /\ BothStores
          /\ \/ obs.failedAt = "retrieve" /\ ret.kind = "raise" /\ obs.llmCalls = 0
             \/ /\ obs.failedAt = "chain"
                /\ ret = [kind |-> "str", val |-> Str(MsgNoChain)]
                /\ obs.llmCalls = 0
             \/ /\ obs.failedAt = "invoke"
                /\ ret.kind = "str"
                /\ ret.val[1] = MsgGenFailed
                /\ obs.llmCalls = 1
             \/ /\ obs.failedAt = "none"
                /\ ret.kind = "str"
                /\ ret.val \in Reports
                /\ ret.val = obs.backendText
                /\ obs.llmCalls = 1

\* A call that ended DONE: both indexes, one backend call, its text returned.
C9_Witness ==
    /\ IsGenerate(call)
    /\ BothStores
    /\ obs.llmCalls = 1
    /\ ret.kind = "str"
    /\ ret.val \in Reports
    /\ ret.val = obs.backendText

\* The rebuild calls generate_compliance_report makes from a given pair of
\* stores: load then create for each missing index, policy first.
RebuildCalls(st) ==
    (IF st["policy"] = None
     THEN << <<"load_documents", "policy">>, <<"create_vector_store", "policy">> >>
     ELSE <<>>)
    \o
    (IF st["regulatory"] = None
     THEN << <<"load_documents", "regulatory">>, <<"create_vector_store", "regulatory">> >>
     ELSE <<>>)

\* C10: generate_compliance_report runs load_documents then
\* create_vector_store for a category exactly when its index is missing at
\* entry, policy before regulatory; a category indexed at entry keeps its
\* collection and its index.
C10_LazyRebuild ==
    [][ IsGenerate(call')
        => (/\ obs'.trace = RebuildCalls(store)
            /\ \A c \in Cats :
                 store[c] # None => (store'[c] = store[c] /\ docs'[c] = docs[c])) ]_vars

\* A call that found the policy index present and the regulatory one
\* missing, and rebuilt the regulatory side only.
C10_Witness ==
    /\ IsGenerate(call)
    /\ obs.trace = << <<"load_documents", "regulatory">>,
                      <<"create_vector_store", "regulatory">> >>
    /\ BothStores

====
